---- MODULE Spec2Model ----
(***************************************************************************)
(* PVCharger (homeassistant/components/pvcharge/pvcharger.py): the four-   *)
(* state charging controller, its transition queue, its subscriptions and  *)
(* its PID regulator.                                                      *)
(*                                                                         *)
(* Units.  Currents are in mA, powers in W, the state of charge in percent *)
(* (the code's fractions times 100), so that all the code's float          *)
(* arithmetic is exact integer arithmetic on the inputs drawn here.        *)
(*                                                                         *)
(* Atomicity.  The handlers are asyncio coroutines: the code between two   *)
(* awaits runs without interruption, and every await of an HTTP request is *)
(* a point where other handlers run.  One action is one such segment.      *)
(***************************************************************************)
EXTENDS Integers, Sequences, FiniteSets, TLC

\* ---------------------------------------------------------------- bounds
\* Entries of the transition queue (the one in progress included).
MaxQueue == 3
\* Tick handlers suspended on a driver call at the same time.
MaxInflight == 1
\* Live subscriptions (the bound on what a leak can pile up).
MaxLive == 4
\* pid_interval, the seconds between two ticks (a constructor argument).
PidInterval == 100
\* Handler segments that run between a timer's expiry and its callback.
MaxWindow == 1

\* ------------------------------------------------------------- constants
AMP_MIN == 6000
AMP_MAX == 32000
POWER_MIN == 2000
POWER_MAX == 11000
SOC_MIN == 25
SOC_MID == 50
\* enough_power's threshold, 0.5
SOC_ENOUGH == 50
\* the fallback of the constructor, 0.48
SOC_DEFAULT == 48
\* PID(0.7, 0.05, 0.0, setpoint=7.5, sample_time=1, ...)
PID_SETPOINT == 7500
PID_SAMPLE_TIME == 1

\* Inputs: the sensor's well-formed values (percent) and the charger's power (W).
SocValues == {48, 60}
PowerValues == {0, 20000}
\* Seconds since the PID's last computation, as the tick sees them.
DtValues == {0, PidInterval}

states == {"off", "loading", "boosting", "idle"}
Triggers == {"run", "pause", "boost", "halt"}
Purposes == {"soc", "pid", "timer"}

\* The transition table, as written: "max" and "load" name no state.
transitions ==
  << [trigger |-> "run",   source |-> {"off", "max", "idle"}, dest |-> "loading"],
     [trigger |-> "pause", source |-> {"loading"},            dest |-> "idle"],
     [trigger |-> "boost", source |-> {"load", "idle"},       dest |-> "boosting"],
     [trigger |-> "halt",  source |-> states,                 dest |-> "off"] >>

VARIABLES
  state,         \* the machine's state
  soc,           \* self.soc, percent
  control,       \* self.control: <<mA>>, or <<>> for None
  pid,           \* the PID: auto_mode, setpoint, integral, last_output
  handles,       \* self._handles: purpose -> subscription id
  live,          \* the subscriptions registered and neither cancelled nor fired
  queue,         \* the machine's transition queue (head: the one in progress)
  tr,            \* the transition in progress and where it is suspended
  pidWait,       \* tick handlers suspended on the status read
  ctlWait,       \* tick handlers suspended on the set_max_current request
  alw,           \* the last set_enabled command issued: <<on>>, or <<>>
  amx,           \* the last set_max_current command issued: <<amps>>, or <<>>
  limits,        \* self._soc_limits
  due,           \* 0, or with a timer callback scheduled: 1 + the segments run since
  raised         \* whether the last handler segment ended with an exception

vars == << state, soc, control, pid, handles, live, queue, tr,
           pidWait, ctlWait, alw, amx, limits, due, raised >>

\* ------------------------------------------------------- pure functions
None == << >>
Some(v) == << v >>

Clamp(x, lo, hi) == IF x < lo THEN lo ELSE IF x > hi THEN hi ELSE x

\* enough_power: soc < 0.5
enough_power(s) == s < SOC_ENOUGH

\* self._soc_limits and self._power_limits, as the constructor sets them.
soc_limits == << SOC_MIN, SOC_MID >>
power_limits == << POWER_MIN, POWER_MAX >>

\* _calculate_setpoint with the interpolation rising from p_min instead of
\* falling from p_max (the sign of grad's term wrong).
calculate_setpoint_rising(is_boosting, s, socl, powl) ==
  LET soc_min == socl[1]
      soc_mid == socl[2]
      p_min == powl[1]
      p_max == powl[2]
  IN IF soc_mid - soc_min = 0
       THEN [raised |-> "ZeroDivisionError", power |-> 0]
       ELSE [raised |-> "none",
             power |-> IF is_boosting THEN p_max
                       ELSE IF s < soc_min THEN p_max
                       ELSE IF s < soc_mid
                         THEN p_min + ((p_max - p_min) * (s - soc_min)) \div (soc_mid - soc_min)
                       ELSE p_min]

\* _calculate_setpoint: grad is computed first, whatever the state; the
\* division raises when the band is empty.  power is the W of the result.
calculate_setpoint(is_boosting, s, socl, powl) ==
  LET soc_min == socl[1]
      soc_mid == socl[2]
      p_min == powl[1]
      p_max == powl[2]
  IN IF soc_mid - soc_min = 0
       THEN [raised |-> "ZeroDivisionError", power |-> 0]
       ELSE [raised |-> "none",
             power |-> IF is_boosting THEN p_max
                       ELSE IF s < soc_min THEN p_max
                       ELSE IF s < soc_mid
                         THEN p_max - ((p_max - p_min) * (s - soc_min)) \div (soc_mid - soc_min)
                       ELSE p_min]

\* The PID's gains: Kp = 0.7, Ki = 0.05, Kd = 0.0.
Kp(x) == (7 * x) \div 10
Ki(x) == (5 * x) \div 100
Kd(x) == 0 * x

\* The PID built without output_limits: nothing clamps its output.
output_limits_default == << 0 - 1000000, 1000000 >>

\* output_limits=(self.amp_min, self.amp_max)
output_limits == << AMP_MIN, AMP_MAX >>

\* The PID after construction (reset clamps the integral into the limits).
PidInit ==
  [auto_mode |-> TRUE, setpoint |-> PID_SETPOINT,
   integral |-> Clamp(0, output_limits[1], output_limits[2]), last_output |-> None]

\* self.pid(input): simple_pid's __call__ with the constructor's settings.
\* dt = 0 stands for a call that follows the last one at once.
PidCall(p, input, dt) ==
  IF ~p.auto_mode THEN [pid |-> p, out |-> p.last_output]
  ELSE IF dt < PID_SAMPLE_TIME /\ p.last_output # None
    THEN [pid |-> p, out |-> p.last_output]
  ELSE LET error == p.setpoint - input
           proportional == Kp(error)
           integral == Clamp(p.integral + Ki(error * dt), output_limits[1], output_limits[2])
           derivative == Kd(0)
           output == Clamp(proportional + integral + derivative,
                           output_limits[1], output_limits[2])
       IN [pid |-> [p EXCEPT !.integral = integral, !.last_output = Some(output)],
           out |-> Some(output)]

\* pid.set_auto_mode(enabled, last_output)
set_auto_mode(p, enabled, last_output) ==
  IF enabled /\ ~p.auto_mode
    THEN [p EXCEPT !.auto_mode = TRUE, !.last_output = None,
                   !.integral = Clamp(last_output, output_limits[1], output_limits[2])]
    ELSE [p EXCEPT !.auto_mode = enabled]

\* round(self.control): mA to whole amps, halves to the even neighbour.
round(x) ==
  LET q == x \div 1000
      r == x % 1000
  IN IF r > 500 \/ (r = 500 /\ q % 2 = 1) THEN q + 1 ELSE q

\* ------------------------------------------------- the controller record
\* The controller's fields as one record, so that a handler segment is the
\* composition of the statements it runs.
NoTr == [pc |-> "none", ev |-> "none", src |-> "none", dest |-> "none", cmds |-> << >>]
NextTr == [NoTr EXCEPT !.pc = "next"]

Ctl ==
  [state |-> state, control |-> control, pid |-> pid, handles |-> handles,
   live |-> live, queue |-> queue, tr |-> tr, alw |-> alw, amx |-> amx,
   soc_limits |-> limits, exc |-> "none", ctl |-> FALSE]

Commit(c) ==
  /\ state' = c.state
  /\ control' = c.control
  /\ pid' = c.pid
  /\ handles' = c.handles
  /\ live' = c.live
  /\ queue' = c.queue
  /\ tr' = c.tr
  /\ alw' = c.alw
  /\ amx' = c.amx
  /\ raised' = (c.exc # "none")
  /\ limits' = c.soc_limits

\* ------------------------------------------------------- subscriptions
EmptyMap == << >>
Put(f, k, v) == [x \in DOMAIN f \cup {k} |-> IF x = k THEN v ELSE f[x]]
Pop(f, k) == [x \in DOMAIN f \ {k} |-> f[x]]
Values(f) == {f[k] : k \in DOMAIN f}

LiveOf(l, p) == {s \in l : s.purpose = p}

\* A fresh handle: the least id no live subscription and no map entry holds.
NewId(c) ==
  LET used == {s.id : s \in c.live} \cup Values(c.handles)
  IN CHOOSE n \in 1..(Cardinality(used) + 1) :
       n \notin used /\ \A m \in 1..(n - 1) : m \in used

\* self._handles[p] = async_track_...(...)
Register(c, p) ==
  LET id == NewId(c)
  IN [c EXCEPT !.handles = Put(@, p, id),
               !.live = @ \cup {[id |-> id, purpose |-> p]}]

\* unsub(): cancelling a handle ends its subscription.
Unsub(l, id) == {s \in l : s.id # id}

\* ------------------------------------------------------- charger driver
\* _async_switch_charger(on) up to its await: the request alw=1/0 goes out.
async_switch_charger(c, on) ==
  [c EXCEPT !.alw = Some(on), !.tr.cmds = Append(@, on)]

\* ------------------------------------------------------ state callbacks
\* on_exit_off up to its await.
on_exit_off(c) == async_switch_charger(Register(Register(c, "soc"), "pid"), TRUE)

\* on_enter_off up to its await.
on_enter_off(c) ==
  async_switch_charger(
    [c EXCEPT !.live = {s \in @ : s.id \notin Values(c.handles)},
              !.handles = EmptyMap],
    FALSE)

\* on_enter_idle switching the charger on instead of off.
on_enter_idle_on(c) == async_switch_charger(c, TRUE)

\* on_enter_idle: the request, and what follows its await.
on_enter_idle(c) == async_switch_charger(c, FALSE)
on_enter_idle_resumed(c) == [c EXCEPT !.pid = set_auto_mode(@, FALSE, 0)]

\* on_exit_idle that leaves the PID as it is after the request.
on_exit_idle_kept(c) == c

\* on_exit_idle: the request, and what follows its await.
on_exit_idle(c) == async_switch_charger(c, TRUE)
on_exit_idle_resumed(c) == [c EXCEPT !.pid = set_auto_mode(@, TRUE, power_limits[1])]

\* on_enter_boosting (no await).
on_enter_boosting(c) == [Register(c, "timer") EXCEPT !.control = Some(AMP_MAX)]

\* on_exit_boosting (no await).
on_exit_boosting(c) ==
  IF "timer" \in DOMAIN c.handles
    THEN [c EXCEPT !.handles = Pop(@, "timer"),
                   !.live = Unsub(@, c.handles["timer"])]
    ELSE c

\* ------------------------------------------- the machine (queued=True)
\* The transitions of trigger e that leave state s.
Matching(e, s) ==
  {i \in 1..Len(transitions) : transitions[i].trigger = e /\ s \in transitions[i].source}

is_valid_source(e, s) == Matching(e, s) # {}

Dest(e, s) ==
  transitions[CHOOSE i \in Matching(e, s) : \A j \in Matching(e, s) : i <= j].dest

\* A trigger put at the front of the queue instead of its end.
Enqueue_left(q, e) == << e >> \o q

\* The queue: a trigger is appended, the machine runs queue[0] and pops it
\* from the left once it is done.
Enqueue(q, e) == Append(q, e)
Current(q) == Head(q)
Popleft(q) == Tail(q)

\* An exception leaves the machine's loop: the loop clears the queue and
\* re-raises, and the transition in progress stays where it stopped.
Raise(c, x) ==
  [c EXCEPT !.exc = x, !.queue = << >>, !.tr = NoTr]

\* The transition is done: it is popped; the loop goes on if more are queued.
Finished(c) ==
  LET q == Popleft(c.queue)
  IN [c EXCEPT !.queue = q, !.tr = IF q = << >> THEN NoTr ELSE NextTr]

\* The state changes and the destination's on_enter callback runs, up to its
\* await if it has one.
EnterState(c) ==
  LET d == [c EXCEPT !.state = c.tr.dest]
  IN CASE d.state = "off" -> [on_enter_off(d) EXCEPT !.tr.pc = "enter"]
       [] d.state = "idle" -> [on_enter_idle(d) EXCEPT !.tr.pc = "enter"]
       [] d.state = "boosting" -> Finished(on_enter_boosting(d))
       [] OTHER -> Finished(d)

\* The source's on_exit callback runs, up to its await if it has one.
ExitState(c) ==
  CASE c.state = "off" -> [on_exit_off(c) EXCEPT !.tr.pc = "exit"]
    [] c.state = "idle" -> [on_exit_idle(c) EXCEPT !.tr.pc = "exit"]
    [] c.state = "boosting" -> EnterState(on_exit_boosting(c))
    [] OTHER -> EnterState(c)

\* The machine taking queue[0] without the check of its source: the first
\* transition of the trigger runs from whatever state the machine is in.
Process_unchecked(c) ==
  LET e == Current(c.queue)
      t == CHOOSE i \in 1..Len(transitions) :
             /\ transitions[i].trigger = e
             /\ \A j \in 1..(i - 1) : transitions[j].trigger # e
  IN ExitState([c EXCEPT !.tr = [pc |-> "run", ev |-> e, src |-> c.state,
                                 dest |-> transitions[t].dest, cmds |-> << >>]])

\* The machine takes queue[0]: a trigger with no transition from the current
\* state raises MachineError (ignore_invalid_triggers is not set).
Process(c) ==
  LET e == Current(c.queue)
  IN IF ~is_valid_source(e, c.state)
       THEN Raise(c, "MachineError")
       ELSE ExitState([c EXCEPT !.tr = [pc |-> "run", ev |-> e, src |-> c.state,
                                        dest |-> Dest(e, c.state), cmds |-> << >>]])

\* await self.<trigger>(): with a transition in progress the trigger is only
\* queued; otherwise the caller runs the machine's loop itself.
Fire(c, e) ==
  LET q == [c EXCEPT !.queue = Enqueue(@, e)]
  IN IF Len(q.queue) > 1 THEN q ELSE Process(q)

\* The driver answered the request of on_exit: the callback goes on.
AfterExit(c) ==
  EnterState(IF c.state = "idle" THEN on_exit_idle_resumed(c) ELSE c)

\* The driver answered the request of on_enter: the callback goes on.
AfterEnter(c) ==
  Finished(IF c.state = "idle" THEN on_enter_idle_resumed(c) ELSE c)

\* The request raised (the charger cannot be reached): the callback ends
\* there and the exception leaves the machine.
Failed(c) == Raise(c, "ClientError")

\* ------------------------------------------------------ the tick handler
\* _async_update_control: round(self.control) and the request amx=<amp>.
async_update_control(c) ==
  IF c.control = None
    THEN [c EXCEPT !.exc = "TypeError"]
    ELSE [c EXCEPT !.amx = Some(round(c.control[1])), !.ctl = TRUE]

\* _async_update_pid after the status read: the state check, then the
\* setpoint, the PID and the request.
async_update_pid(c, s, cp, dt) ==
  IF c.state = "idle"
    THEN IF enough_power(s) THEN Fire(c, "run") ELSE c
  ELSE IF c.state = "loading" /\ ~enough_power(s)
    THEN Fire(c, "pause")
  ELSE LET sp == calculate_setpoint(c.state = "boosting", s, c.soc_limits, power_limits)
       IN IF sp.raised # "none"
            THEN [c EXCEPT !.exc = sp.raised]
            ELSE LET r == PidCall([c.pid EXCEPT !.setpoint = sp.power], cp, dt)
                 IN async_update_control([c EXCEPT !.pid = r.pid, !.control = r.out])

\* Whether the tick triggers an event in state st with measurement s.
TickFires(st, s) ==
  \/ st = "idle" /\ enough_power(s)
  \/ st = "loading" /\ ~enough_power(s)

\* _async_update_status with its error swallowed: the handler goes on with
\* the power it read last.
async_update_status_ignored(c) == async_update_pid(c, soc, 0, PidInterval)

\* _async_update_status raises (the charger cannot be reached, or its
\* answer does not parse): the exception leaves _async_update_pid.
async_update_status_raised(c) == [c EXCEPT !.exc = "ClientError"]

\* ------------------------------------------------- the sensor's callback
\* _async_watch_soc: float(new_state.state) / 100.0, in percent.  The
\* sensor's state is Some(v) for the text of a number v, None for a text
\* float() rejects: ValueError leaves the handler before the assignment.
async_watch_soc_reset(s, new_state) ==
  IF new_state = None
    THEN [raised |-> "none", soc |-> 0]
    ELSE [raised |-> "none", soc |-> (new_state[1] * 100) \div 100]

async_watch_soc(s, new_state) ==
  IF new_state = None
    THEN [raised |-> "ValueError", soc |-> s]
    ELSE [raised |-> "none", soc |-> (new_state[1] * 100) \div 100]

\* --------------------------------------------------- the timer's callback
\* _async_time_is_up: the timer's key is popped; self.auto is no attribute
\* of the model (no transition has that trigger), so the await raises
\* AttributeError.
async_time_is_up(c) ==
  [c EXCEPT !.handles = Pop(@, "timer"), !.exc = "AttributeError"]

\* ------------------------------------------------------------- actions
Init ==
  /\ state = "off"
  /\ soc \in SocValues \cup {SOC_DEFAULT}
  /\ control = Some(AMP_MIN)
  /\ pid = PidInit
  /\ handles = EmptyMap
  /\ live = {}
  /\ queue = << >>
  /\ tr = NoTr
  /\ pidWait = 0
  /\ ctlWait = 0
  /\ alw = None
  /\ amx = None
  /\ limits = soc_limits
  /\ due = 0
  /\ raised = FALSE

\* Nothing else runs between two transitions of the machine's loop.
Scheduled == tr.pc # "next"

\* The step of a handler segment that leaves the controller as c.  The
\* callback of a timer that fired runs in the loop's next iteration, and the
\* way back into Boosting awaits several requests: no timer is registered
\* while a callback is due.
Step(c) ==
  /\ Cardinality(c.live) <= MaxLive
  /\ due > 0 => LiveOf(c.live, "timer") \subseteq LiveOf(live, "timer")
  /\ Commit(c)

\* A handler segment other than the timer's callback runs: with the callback
\* scheduled, it is one of the segments that run before it.
Segment ==
  /\ due <= MaxWindow
  /\ due' = IF due = 0 THEN 0 ELSE due + 1

\* A caller awaits self.run() / pause() / boost() / halt().
Call(e) ==
  /\ Segment
  /\ Step(Fire(Ctl, e))
  /\ UNCHANGED << soc, pidWait, ctlWait >>

\* A call is taken while the queue has room for it.
CanCall == Scheduled /\ Len(queue) < MaxQueue

Run ==
  /\ CanCall
  /\ Call("run")

Pause ==
  /\ CanCall
  /\ Call("pause")

Boost ==
  /\ CanCall
  /\ Call("boost")

Halt ==
  /\ CanCall
  /\ Call("halt")

\* The machine's loop takes the next queued trigger.
Continue ==
  /\ tr.pc = "next"
  /\ Segment
  /\ Step(Process(Ctl))
  /\ UNCHANGED << soc, pidWait, ctlWait >>

\* The request of the on_exit callback returns.
ExitResumed ==
  /\ tr.pc = "exit"
  /\ Segment
  /\ Step(AfterExit(Ctl))
  /\ UNCHANGED << soc, pidWait, ctlWait >>

\* The request of the on_enter callback returns.
EnterResumed ==
  /\ tr.pc = "enter"
  /\ Segment
  /\ Step(AfterEnter(Ctl))
  /\ UNCHANGED << soc, pidWait, ctlWait >>

\* The request of a callback raises.
RequestFailed ==
  /\ tr.pc \in {"exit", "enter"}
  /\ Segment
  /\ Step(Failed(Ctl))
  /\ UNCHANGED << soc, pidWait, ctlWait >>

\* The periodic timer calls _async_update_pid, which awaits the status.
Tick ==
  /\ Scheduled
  /\ LiveOf(live, "pid") # {}
  /\ pidWait + ctlWait < MaxInflight
  /\ pidWait' = pidWait + 1
  /\ raised' = FALSE
  /\ UNCHANGED << state, soc, control, pid, handles, live, queue, tr, ctlWait,
                  alw, amx, limits >>
  /\ Segment

\* The status read raises: the handler ends there.
TickStatusFailed ==
  /\ Scheduled
  /\ pidWait > 0
  /\ LET c == async_update_status_raised(Ctl)
     IN /\ Step(c)
        /\ pidWait' = pidWait - 1
        /\ ctlWait' = IF c.ctl THEN ctlWait + 1 ELSE ctlWait
  /\ Segment
  /\ UNCHANGED soc

\* The status read returns and the handler runs up to its next await.
TickResumed ==
  /\ Scheduled
  /\ pidWait > 0
  /\ TickFires(state, soc) => Len(queue) < MaxQueue
  /\ \E cp \in PowerValues, dt \in DtValues :
       LET c == async_update_pid(Ctl, soc, cp, dt)
       IN /\ Step(c)
          /\ pidWait' = pidWait - 1
          /\ ctlWait' = IF c.ctl THEN ctlWait + 1 ELSE ctlWait
  /\ Segment
  /\ UNCHANGED soc

\* The set_max_current request returns or raises: the handler ends.
TickDone ==
  /\ Scheduled
  /\ ctlWait > 0
  /\ ctlWait' = ctlWait - 1
  /\ raised' \in BOOLEAN
  /\ UNCHANGED << state, soc, control, pid, handles, live, queue, tr, pidWait,
                  alw, amx, limits >>
  /\ Segment

\* _async_watch_soc with a well-formed state.
WatchSoc ==
  /\ Scheduled
  /\ LiveOf(live, "soc") # {}
  /\ \E v \in SocValues :
       LET r == async_watch_soc(soc, Some(v))
       IN soc' = r.soc /\ raised' = (r.raised # "none")
  /\ UNCHANGED << state, control, pid, handles, live, queue, tr, pidWait,
                  ctlWait, alw, amx, limits >>
  /\ Segment

\* _async_watch_soc with a state float() rejects ("unavailable").
WatchSocMalformed ==
  /\ Scheduled
  /\ LiveOf(live, "soc") # {}
  /\ LET r == async_watch_soc(soc, None)
     IN soc' = r.soc /\ raised' = (r.raised # "none")
  /\ UNCHANGED << state, control, pid, handles, live, queue, tr, pidWait,
                  ctlWait, alw, amx, limits >>
  /\ Segment

\* The boost timer expires: the loop schedules _async_time_is_up, which runs
\* once the handlers that were ready before it have run.
TimerFires ==
  /\ Scheduled
  /\ due = 0
  /\ \E t \in LiveOf(live, "timer") : live' = live \ {t}
  /\ due' = 1
  /\ UNCHANGED << state, soc, control, pid, handles, queue, tr, pidWait, ctlWait,
                  alw, amx, limits, raised >>

\* _async_time_is_up runs.
TimeIsUp ==
  /\ Scheduled
  /\ due > 0
  /\ due' = 0
  /\ Step(async_time_is_up(Ctl))
  /\ UNCHANGED << soc, pidWait, ctlWait >>

Next ==
  \/ Run
  \/ Pause
  \/ Boost
  \/ Halt
  \/ Continue
  \/ ExitResumed
  \/ EnterResumed
  \/ RequestFailed
  \/ Tick
  \/ TickStatusFailed
  \/ TickResumed
  \/ TickDone
  \/ WatchSoc
  \/ WatchSocMalformed
  \/ TimerFires
  \/ TimeIsUp

Spec == Init /\ [][Next]_vars

\* ---------------------------------------------------------------- claims
\* The machine rests: no transition is in progress and none is queued.
Resting == tr.pc = "none" /\ queue = << >>

\* A step that ends the transition in progress by running it to its end.
Completes == (tr.pc = "exit" /\ ExitResumed /\ tr'.pc # "enter") \/ (tr.pc = "enter" /\ EnterResumed)

\* C1: the boost timer's firing moves the controller out of Boosting, back to
\* Loading: after the firing the state is Loading, or the run it triggered is
\* in the queue.
C1_BoostEndsByTimer ==
  [][TimeIsUp => state' = "loading" \/ (queue' # << >> /\ queue'[Len(queue')] = "run")]_vars

\* C2: run is accepted in Off, Boosting and Idle, with Loading as its
\* destination, and a run transition that runs to its end leaves the state
\* Loading.
C2_RunAccepted ==
  /\ [](state \in {"off", "boosting", "idle"} /\ Resting
          => is_valid_source("run", state) /\ Dest("run", state) = "loading")
  /\ [][tr.ev = "run" /\ Completes => state' = "loading"]_vars

\* C3: boost is accepted in Loading and Idle, with Boosting as its
\* destination, and pause in Loading, with Idle as its destination; such a
\* transition that runs to its end leaves the state Boosting (Idle).
C3_BoostPauseAccepted ==
  /\ [](state \in {"loading", "idle"} /\ Resting
          => is_valid_source("boost", state) /\ Dest("boost", state) = "boosting")
  /\ [](state = "loading" /\ Resting
          => is_valid_source("pause", state) /\ Dest("pause", state) = "idle")
  /\ [][tr.ev = "boost" /\ Completes => state' = "boosting"]_vars
  /\ [][tr.ev = "pause" /\ Completes => state' = "idle"]_vars

\* The set_enabled(on) commands among cmds.
Issued(cmds, on) == Cardinality({i \in 1..Len(cmds) : cmds[i] = on})

\* A step that ends the transition in progress, by completing or by raising.
Ends == Completes \/ (tr.pc \in {"exit", "enter"} /\ RequestFailed)

\* C4: halt is accepted in every state, and the halt transition ends in Off
\* with no live subscription, an empty subscription map and exactly one
\* set_enabled(false) issued.
C4_HaltEndsOff ==
  /\ [](Resting => is_valid_source("halt", state) /\ Dest("halt", state) = "off")
  /\ [][tr.ev = "halt" /\ Ends
          => /\ state' = "off"
             /\ live' = {}
             /\ handles' = EmptyMap
             /\ Issued(tr.cmds, FALSE) = 1]_vars

\* C5: every live subscription is the one its purpose's map entry holds, so
\* each purpose has at most one live subscription.
C5_OneLivePerPurpose ==
  /\ \A p \in Purposes : Cardinality(LiveOf(live, p)) <= 1
  /\ \A s \in live : s.purpose \in DOMAIN handles /\ handles[s.purpose] = s.id

\* A transition is suspended on the request of its callback.
Suspended == tr.pc \in {"exit", "enter"}

\* The step that takes a suspended transition further.
Continuation == ExitResumed \/ EnterResumed \/ RequestFailed

\* The machine takes a trigger that has no transition from the current state.
InvalidTaken ==
  \/ /\ CanCall
     /\ queue = << >>
     /\ \E e \in Triggers : ~is_valid_source(e, state) /\ Call(e)
  \/ /\ tr.pc = "next"
     /\ ~is_valid_source(Current(queue), state)
     /\ Continue

C8_NoInterleaving ==
  [][\/ pidWait > 0 /\ ~(TickResumed \/ TickStatusFailed)
     \/ Suspended /\ ~Continuation
       => UNCHANGED << state, soc, control, handles >>]_vars

\* C9: the control output is a current in [AMP_MIN, AMP_MAX], and the last
\* set_max_current command carries whole amps in [6, 32].
C9_ControlInRange ==
  /\ control # None
  /\ AMP_MIN <= control[1] /\ control[1] <= AMP_MAX
  /\ amx # None => amx[1] \in (AMP_MIN \div 1000)..(AMP_MAX \div 1000)

C9_Witness ==
  /\ state = "loading"
  /\ pid.last_output # None
  /\ control = pid.last_output
  /\ AMP_MIN < control[1] /\ control[1] < AMP_MAX
  /\ amx = Some(round(control[1]))

\* ------------------------------------------- the setpoint policy alone
\* The measurement's range, percent.
SocMax == 100

\* self.pid.setpoint = self._calculate_setpoint(), for measurement m.
SetSetpoint(p, st, m) ==
  [p EXCEPT !.setpoint = calculate_setpoint(st = "boosting", m, soc_limits, power_limits).power]

\* Any state and any measurement, with the setpoint the policy gives them.
InitSetpoint ==
  /\ state \in states
  /\ soc \in 0..SocMax
  /\ pid = SetSetpoint(PidInit, state, soc)
  /\ control = Some(AMP_MIN)
  /\ handles = EmptyMap
  /\ live = {}
  /\ queue = << >>
  /\ tr = NoTr
  /\ pidWait = 0
  /\ ctlWait = 0
  /\ alw = None
  /\ amx = None
  /\ limits = soc_limits
  /\ due = 0
  /\ raised = FALSE

\* The measurement changes and the setpoint is computed again.
Measure ==
  /\ \E m \in 0..SocMax :
       /\ soc' = m
       /\ pid' = SetSetpoint(pid, state, m)
  /\ UNCHANGED << state, control, handles, live, queue, tr, pidWait, ctlWait, alw, amx,
                  limits, due, raised >>

NextSetpoint == Measure

SpecSetpoint == InitSetpoint /\ [][NextSetpoint]_vars

\* C10: in Boosting the setpoint is power_max whatever the measurement; in
\* every other state it is power_max below band_low, power_min from band_mid
\* on and on the line between the two in the band, and it never rises when
\* the measurement rises.
C10_SetpointMonotone ==
  /\ [](state = "boosting" => pid.setpoint = POWER_MAX)
  /\ [](state # "boosting" /\ soc < SOC_MIN => pid.setpoint = POWER_MAX)
  /\ [](state # "boosting" /\ soc >= SOC_MID => pid.setpoint = POWER_MIN)
  /\ [](state # "boosting" /\ SOC_MIN <= soc /\ soc < SOC_MID
          => (pid.setpoint - POWER_MIN) * (SOC_MID - SOC_MIN)
               = (POWER_MAX - POWER_MIN) * (SOC_MID - soc))
  /\ [][soc <= soc' => pid'.setpoint <= pid.setpoint]_vars

C10_Witness ==
  /\ state = "loading"
  /\ SOC_MIN < soc /\ soc < SOC_MID
  /\ POWER_MIN < pid.setpoint /\ pid.setpoint < POWER_MAX

\* ------------------------------------------------- the timer's late firing
\* C11: the timer's callback running in Off, after a halt cancelled the
\* timer, is a no-op: it changes neither the state nor the subscriptions, it
\* triggers no transition, issues no command and raises no error.
C11_LateTimerIsNoOp ==
  [][state = "off" /\ TimeIsUp
       => /\ UNCHANGED << state, handles, live, queue, tr, control, pid, alw, amx >>
          /\ ~raised']_vars

\* -------------------------------------------------------- driver failures
\* C12: when the request of an exit or entry callback fails, the transition
\* still ends in its target state, with the subscription map and the PID
\* auto-mode of that state.
C12_FailureDoesNotBlock ==
  [][Suspended /\ RequestFailed
       => /\ state' = tr.dest
          /\ tr.dest = "off" => handles' = EmptyMap
          /\ tr.dest \in {"loading", "idle"} => DOMAIN handles' = {"soc", "pid"}
          /\ tr.dest = "boosting" => {"soc", "pid"} \subseteq DOMAIN handles'
          /\ pid'.auto_mode = (tr.dest # "idle")]_vars

\* C13: a tick whose status read fails triggers no transition, computes no
\* PID output, issues no set_max_current and leaves the state, the control
\* output and the subscriptions as they are; the handler ends there, and the
\* periodic subscription stays as it is for the next tick.
C13_StatusFailureContained ==
  [][pidWait > 0 /\ TickStatusFailed
       => /\ UNCHANGED << state, control, pid, handles, live, queue, tr, alw, amx,
                          ctlWait, soc >>
          /\ pidWait' = pidWait - 1
          /\ Scheduled']_vars

\* A segment raised with a transition in progress (so the machine did not
\* raise), with no soc subscription, no set_max_current ever issued and the
\* control output never set by Boosting: the status read of a tick raised.
C13_Witness ==
  /\ raised
  /\ queue # << >>
  /\ LiveOf(live, "soc") = {}
  /\ pidWait = 0
  /\ amx = None
  /\ control = Some(AMP_MIN)

\* C14: the sensor's callback changes the measurement only: a well-formed
\* value replaces it, a malformed value leaves it, and neither triggers a
\* transition nor changes the state, the control output, the PID or the
\* subscriptions.
C14_WatchSocFrame ==
  /\ [][WatchSoc \/ WatchSocMalformed
          => UNCHANGED << state, control, pid, handles, live, queue, tr, alw, amx,
                          pidWait, ctlWait >>]_vars
  /\ [][WatchSoc => soc' \in SocValues /\ ~raised']_vars
  /\ [][LiveOf(live, "soc") # {} /\ WatchSocMalformed => soc' = soc]_vars

\* A segment raised with a transition in progress and a tick waiting for
\* its status, before any set_max_current and any Boosting: the sensor's
\* callback raised, and the measurement is the one it had.
C14_Witness ==
  /\ raised
  /\ queue # << >>
  /\ pidWait = MaxInflight
  /\ amx = None
  /\ control = Some(AMP_MIN)
  /\ soc = SOC_DEFAULT

\* ------------------------------------------------------------- the tick
\* The step of a tick handler whose status read returned.
TickRuns == pidWait > 0 /\ TickResumed

\* The tick goes on to the PID: the state is not Idle, nor Loading without
\* enough power.
TickComputes(st, s) == st # "idle" /\ ~(st = "loading" /\ ~enough_power(s))

\* The tick's step sets the setpoint by the policy, calls the PID, stores its
\* output as the control output and issues one set_max_current with it.
Regulates ==
  \E cp \in PowerValues, dt \in DtValues :
    LET sp == calculate_setpoint(state = "boosting", soc, limits, power_limits)
        r == PidCall([pid EXCEPT !.setpoint = sp.power], cp, dt)
    IN /\ sp.raised = "none"
       /\ pid' = r.pid
       /\ control' = r.out
       /\ control' # None
       /\ amx' = Some(round(control'[1]))
       /\ ctlWait' = ctlWait + 1

\* C15: a tick whose status read returned does one of three things.  In
\* Idle it triggers run if and only if the measurement is below 0.5, and it
\* neither calls the PID nor issues set_max_current.  In Loading with the
\* measurement at 0.5 or above it triggers pause and issues no
\* set_max_current, and that pause ends in Idle with the PID's auto-mode off
\* and set_enabled(false) issued once.  Otherwise it sets the setpoint, calls
\* the PID, stores the output and issues one set_max_current, triggering
\* nothing.  In Boosting it triggers no transition.
C15_TickBehaviour ==
  /\ [][TickRuns /\ state = "idle"
          => /\ IF enough_power(soc) THEN queue' = Append(queue, "run")
                                     ELSE queue' = queue /\ tr' = tr
             /\ UNCHANGED << pid, control, amx, ctlWait >>]_vars
  /\ [][TickRuns /\ state = "loading" /\ ~enough_power(soc)
          => /\ queue' = Append(queue, "pause")
             /\ tr'.ev = "pause"
             /\ state' = "idle"
             /\ UNCHANGED << pid, control, amx, ctlWait >>]_vars
  /\ [][tr.ev = "pause" /\ Ends
          => /\ state' = "idle"
             /\ ~pid'.auto_mode
             /\ Issued(tr.cmds, FALSE) = 1]_vars
  /\ [][TickRuns /\ TickComputes(state, soc)
          => Regulates /\ UNCHANGED << state, queue, tr, alw >>]_vars
  /\ [][TickRuns /\ state = "boosting" => UNCHANGED << state, queue, tr >>]_vars

\* C16: the tick calls the PID in auto-mode only: the auto-mode is off in
\* Idle alone, where the tick returns before the PID; entering Idle switches
\* it off and every exit from Idle switches it on again.
C16_PidOnlyInAutoMode ==
  /\ [][TickRuns /\ TickComputes(state, soc) => pid.auto_mode]_vars
  /\ [](~pid.auto_mode => state = "idle")
  /\ [][tr.pc = "enter" /\ state = "idle" /\ EnterResumed => ~pid'.auto_mode]_vars
  /\ [][tr.pc = "exit" /\ state = "idle" /\ ExitResumed
          => pid'.auto_mode /\ state' = tr.dest]_vars

\* The PID computed in Boosting, which is entered from Idle alone.
C16_Witness ==
  /\ state = "boosting"
  /\ pid.auto_mode
  /\ pid.last_output # None
  /\ control = pid.last_output
  /\ ctlWait > 0

\* --------------------------------- the setpoint policy over its bands
\* The values band_low and band_mid are drawn from, percent.
BandValues == {25, 50}

\* The measurements the policy is applied to, percent.
BandSocs == 0..SocMax

\* Any state and any bands with band_low <= band_mid, as self._soc_limits.
InitBands ==
  /\ state \in states
  /\ soc \in BandSocs
  /\ limits \in {b \in BandValues \X BandValues : b[1] <= b[2]}
  /\ pid = PidInit
  /\ control = Some(AMP_MIN)
  /\ handles = EmptyMap
  /\ live = {}
  /\ queue = << >>
  /\ tr = NoTr
  /\ pidWait = 0
  /\ ctlWait = 0
  /\ alw = None
  /\ amx = None
  /\ due = 0
  /\ raised = FALSE

\* self.pid.setpoint = self._calculate_setpoint() for a measurement m: an
\* exception of _calculate_setpoint leaves before the assignment.
CalculateSetpoint ==
  /\ \E m \in BandSocs :
       LET sp == calculate_setpoint(state = "boosting", m, limits, power_limits)
       IN /\ soc' = m
          /\ raised' = (sp.raised # "none")
          /\ pid' = IF sp.raised = "none" THEN [pid EXCEPT !.setpoint = sp.power] ELSE pid
  /\ UNCHANGED << state, control, handles, live, queue, tr, pidWait, ctlWait, alw, amx,
                  limits, due >>

NextBands == CalculateSetpoint

SpecBands == InitBands /\ [][NextBands]_vars

C18_EnabledMatchesState ==
  [][Completes
       => /\ alw' # None
          /\ alw'[1] = (state' \in {"loading", "boosting"})
          /\ tr.cmds # << >>
          /\ alw' = Some(tr.cmds[Len(tr.cmds)])]_vars

\* A pause completed: Idle, at rest, with the charger switched off last.
C18_Witness ==
  /\ state = "idle"
  /\ Resting
  /\ ~raised
  /\ ~pid.auto_mode
  /\ alw = Some(FALSE)

\* C19: no tick calls the PID or issues set_max_current while the state is
\* Off or Idle, a tick that was waiting for its status when a halt or pause
\* completed included.
C19_NoRegulationInOffIdle ==
  [][TickRuns /\ state \in {"off", "idle"}
       => UNCHANGED << pid, control, amx, ctlWait >>]_vars

\* The timer's handle is live: registered, neither cancelled nor fired.
TimerLive == [id |-> handles["timer"], purpose |-> "timer"] \in live

\* C20: at rest the keys of the subscription map are those of the state:
\* none in Off, soc and pid in Loading and Idle, soc and pid and at most the
\* timer in Boosting; the timer's key is there only in Boosting with its
\* timer not yet fired; and a handler that cancels a handle cancels a live
\* one (not cancelled before, its timer not fired).
C20_KeysByState ==
  /\ [](Resting /\ state = "off" => DOMAIN handles = {})
  /\ [](Resting /\ state \in {"loading", "idle"} => DOMAIN handles = {"soc", "pid"})
  /\ [](Resting /\ state = "boosting"
          => {"soc", "pid"} \subseteq DOMAIN handles /\ DOMAIN handles \subseteq Purposes)
  /\ []("timer" \in DOMAIN handles => state = "boosting" /\ TimerLive)
  /\ [][~TimeIsUp
          => \A k \in DOMAIN handles :
               k \notin DOMAIN handles' => [id |-> handles[k], purpose |-> k] \in live]_vars

====
